---- MODULE Spec2Model ----
(***************************************************************************)
(* Model of the ComfyUI launcher's supervision and shutdown core:          *)
(*   - EventPublisher        (comfy-ui/launcher/event_system.py)           *)
(*   - ServerManager         (comfy-ui/launcher/server_manager.py)         *)
(*   - GUIManager            (comfy-ui/launcher/gui_manager.py)            *)
(*   - TrayManager           (comfy_launcher/tray_manager.py)              *)
(*   - main / app_logic_thread_func (comfy_launcher/__main__.py)           *)
(*                                                                         *)
(* Six specifications share the variables:                                 *)
(*   SpecBus : the EventPublisher driven by arbitrary callers and handlers *)
(*   SpecReg : subscribe and unsubscribe called one after another          *)
(*   SpecSM  : the ServerManager driven by one sequential caller           *)
(*   Spec    : a run of main() with all its threads (SpecFair adds the     *)
(*             fairness of thread scheduling)                              *)
(*   SpecPoll: redirect_when_ready_loop alone, with its clock              *)
(*             (SpecPollFair adds the fairness of its thread)              *)
(*   SpecQuit: main() with APPLICATION_QUIT_REQUESTED published by two     *)
(*             threads, the window handler taken statement by statement    *)
(* In Spec timed waits carry no clock: a wait with a timeout may time out  *)
(* in any state in which the awaited condition does not hold.              *)
(***************************************************************************)
EXTENDS Integers, Sequences, FiniteSets, TLC

\* ------------------------------------------------------------------ bounds
\* Most registrations one event kind holds in SpecBus.
MaxSubs == 2
\* Most registrations one event kind holds in SpecReg.
MaxRegs == 3
\* Largest retries argument given to wait_for_server_availability in SpecSM.
MaxRetries == 3
\* Most child processes start_server launches in SpecSM.
MaxProcs == 2

\* ------------------------------------------------------------ event system
\* AppEventType: the kinds used by the tests of the event system ...
TestKinds == {"TEST_EVENT_NO_ARGS", "TEST_EVENT_WITH_ARGS"}
\* ... and the kinds the launcher publishes.
AppKinds == {"GUI_WINDOW_CONTENT_LOADED", "APPLICATION_QUIT_REQUESTED",
             "APPLICATION_CRITICAL_ERROR", "SERVER_STOPPED_UNEXPECTEDLY",
             "APP_LOGIC_SHUTDOWN_COMPLETE", "TRAY_MANAGER_SHUTDOWN_COMPLETE"}
AppEventType == TestKinds \cup AppKinds

\* Arbitrary callables (the tests' mock_handler1, mock_handler2).
MockHandlers == {"mock_handler1", "mock_handler2"}

\* The arguments a test publish hands to the handlers.
ArgsOf(kind) == IF kind = "TEST_EVENT_WITH_ARGS" THEN {1, 2} ELSE {0}

\* Threads that call publish: the tests' thread, and the launcher's monitor,
\* UI-callback and tray threads.
Publishers == {"test", "monitor", "gui", "tray"}

VARIABLES
  subscribers,   \* EventPublisher._subscribers: kind -> list of handlers
  pub,           \* per publishing thread: its publish call in progress (or its last)
  unsub,         \* SpecReg: the unsubscribe call just made and the registry it found
  lock           \* EventPublisher._lock: "free" or the thread that holds it

busVars == <<subscribers, pub, unsub, lock>>

VARIABLES
  server_process, \* ServerManager.server_process: 0 is None, else the child's pid
  children,       \* the OS's view of each child process ever launched
  sd,             \* per calling thread: its shutdown_server call
  wa              \* the wait_for_server_availability call

smVars == <<server_process, children, sd, wa>>

VARIABLES
  app_shutdown_event,             \* __main__.app_shutdown_event
  app_logic_completed_event,      \* __main__._app_logic_completed_event
  tray_manager_completed_event,   \* __main__._tray_manager_completed_event
  gui_content_loaded_event,       \* the monitor's _gui_initial_content_loaded_event
  redirect_thread_stop_event,     \* the monitor's redirect_thread_stop_event
  mainpc,        \* where main() is
  mon,           \* app_logic_thread_func: its position and locals
  poller,        \* redirect_when_ready_loop: its position and UI calls
  tray,          \* TrayManager: its thread and icon loop
  gui,           \* GUIManager: webview_window, the window itself, the UI callbacks
  published,     \* per kind: the arguments of every publish call made so far
  rl             \* the redirect loop's clock and the record of its checks (SpecPoll)

eventVars == <<app_shutdown_event, app_logic_completed_event,
               tray_manager_completed_event, gui_content_loaded_event,
               redirect_thread_stop_event>>

appVars == <<eventVars, mainpc, mon, poller, tray, gui, published, rl>>

\* A buggy subscribe that skips a handler already in the list.
SubscribeOnce(reg, kind, handler) ==
  IF \E i \in 1..Len(reg[kind]) : reg[kind][i] = handler
  THEN reg
  ELSE [reg EXCEPT ![kind] = Append(@, handler)]

\* list.append(handler)
Subscribe(reg, kind, handler) ==
  [reg EXCEPT ![kind] = Append(@, handler)]

\* A buggy removal that drops the last equal element instead of the first.
RemoveLast(s, h) ==
  IF \E i \in 1..Len(s) : s[i] = h
  THEN LET i == CHOOSE k \in 1..Len(s) :
                  s[k] = h /\ \A j \in (k+1)..Len(s) : s[j] # h
       IN  SubSeq(s, 1, i-1) \o SubSeq(s, i+1, Len(s))
  ELSE s

\* list.remove(handler): drops the first equal element; ValueError (absent)
\* is caught and leaves the list as it was.
RemoveFirst(s, h) ==
  IF \E i \in 1..Len(s) : s[i] = h
  THEN LET i == CHOOSE k \in 1..Len(s) :
                  s[k] = h /\ \A j \in 1..(k-1) : s[j] # h
       IN  SubSeq(s, 1, i-1) \o SubSeq(s, i+1, Len(s))
  ELSE s

Unsubscribe(reg, kind, handler) ==
  [reg EXCEPT ![kind] = RemoveFirst(@, handler)]

\* No unsubscribe call has been made by the test caller yet.
NoUnsubscribe ==
  [called |-> FALSE, kind |-> "TEST_EVENT_NO_ARGS", handler |-> "mock_handler1",
   before |-> [k \in AppEventType |-> <<>>], raised |-> FALSE]

\* A buggy publish that iterates the live list instead of a copy of it.
HandlersLive(f) == subscribers[f.kind]

\* handlers_to_call: the copy publish took under the lock.
HandlersToCall(f) == f.handlers_to_call

\* A buggy publish without the try/except around the handler call.
NoCatch(outcome) == FALSE

\* except Exception: an exception of a handler is caught and logged.
CatchesException(outcome) == outcome = "raise"

IdleFrame ==
  [status |-> "idle", kind |-> "TEST_EVENT_NO_ARGS", args |-> 0,
   handlers_to_call |-> <<>>, idx |-> 1, called |-> <<>>, reg0 |-> <<>>,
   raised |-> {}, mutated |-> FALSE, local |-> "none"]

\* publish(), lines 60-62: snapshot the kind's list under the lock.
NewFrame(kind, args) ==
  [status |-> "running", kind |-> kind, args |-> args,
   handlers_to_call |-> subscribers[kind], idx |-> 1, called |-> <<>>,
   reg0 |-> subscribers[kind], raised |-> {}, mutated |-> FALSE,
   local |-> "none"]

\* ---------------------------------------------- SpecBus: the event system
\* subscribe(), lines 43-47, by any thread, at any time (also during a publish).
BusSubscribe(kind, handler) ==
  /\ Len(subscribers[kind]) < MaxSubs
  /\ lock = "free"
  /\ subscribers' = Subscribe(subscribers, kind, handler)
  /\ UNCHANGED <<pub, unsub, lock>>

\* unsubscribe(), lines 49-56, by any thread, at any time.
BusUnsubscribe(kind, handler) ==
  /\ lock = "free"
  /\ subscribers' = Unsubscribe(subscribers, kind, handler)
  /\ UNCHANGED <<pub, unsub, lock>>

\* A buggy publish that keeps the lock while it calls the handlers.
HeldThroughLoop(t) == t

\* lines 61-62: the with block ends after the copy, before the loop.
LockAfterSnapshot(t) == "free"

\* publish(), lines 58-64: the call begins and takes its snapshot under the
\* lock.
PublishBegin(t, kind, args) ==
  /\ pub[t].status # "running"
  /\ lock = "free"
  /\ pub' = [pub EXCEPT ![t] = NewFrame(kind, args)]
  /\ lock' = LockAfterSnapshot(t)
  /\ UNCHANGED <<subscribers, unsub>>

\* What a mock handler may do when called: return, raise, or first call
\* subscribe/unsubscribe itself (a handler that re-enters the publisher).
MockEffects ==
  {[op |-> "none", kind |-> "TEST_EVENT_NO_ARGS", handler |-> "mock_handler1"]}
  \cup [op : {"subscribe", "unsubscribe"}, kind : TestKinds, handler : MockHandlers]

ApplyEffect(reg, e) ==
  CASE e.op = "subscribe"   -> IF Len(reg[e.kind]) < MaxSubs
                               THEN Subscribe(reg, e.kind, e.handler) ELSE reg
    [] e.op = "unsubscribe" -> Unsubscribe(reg, e.kind, e.handler)
    [] OTHER                -> reg

\* The frame after publish's loop has called its next handler, which ended
\* with `outcome`: lines 65-70.
AfterCall(f, h, outcome, mutates) ==
  LET g == [f EXCEPT !.called = Append(@, [handler |-> h, args |-> f.args]),
                     !.mutated = @ \/ mutates]
  IN  IF outcome = "return"
      THEN [g EXCEPT !.idx = @ + 1]
      ELSE IF CatchesException(outcome)
           THEN [g EXCEPT !.idx = @ + 1, !.raised = @ \cup {f.idx}]
           ELSE [g EXCEPT !.status = "escaped"]

\* One iteration of publish's loop over a mock handler.
PublishInvokeMock(t) ==
  LET f == pub[t] IN
  /\ f.status = "running"
  /\ f.kind \in TestKinds
  /\ f.idx <= Len(HandlersToCall(f))
  /\ \E e \in MockEffects, outcome \in {"return", "raise"} :
       /\ e.op # "none" => lock = "free"
       /\ subscribers' = ApplyEffect(subscribers, e)
       /\ UNCHANGED <<unsub, lock>>
       /\ pub' = [pub EXCEPT ![t] =
                    AfterCall(f, HandlersToCall(f)[f.idx], outcome,
                              e.op # "none" /\ e.kind = f.kind
                              /\ subscribers'[f.kind] # subscribers[f.kind])]

\* publish's loop is exhausted: the call returns to the publisher.
PublishReturn(t) ==
  LET f == pub[t] IN
  /\ f.status = "running"
  /\ f.idx > Len(HandlersToCall(f))
  /\ pub' = [pub EXCEPT ![t].status = "returned"]
  /\ UNCHANGED <<subscribers, unsub, lock>>

InitBus ==
  /\ subscribers = [k \in AppEventType |-> <<>>]
  /\ pub = [t \in Publishers |-> IdleFrame]
  /\ unsub = NoUnsubscribe
  /\ lock = "free"

NextBus ==
  \/ \E k \in TestKinds, h \in MockHandlers :
       BusSubscribe(k, h) /\ UNCHANGED <<smVars, appVars>>
  \/ \E k \in TestKinds, h \in MockHandlers :
       BusUnsubscribe(k, h) /\ UNCHANGED <<smVars, appVars>>
  \/ \E k \in TestKinds, a \in {0, 1, 2} :
       a \in ArgsOf(k) /\ PublishBegin("test", k, a) /\ UNCHANGED <<smVars, appVars>>
  \/ PublishInvokeMock("test") /\ UNCHANGED <<smVars, appVars>>
  \/ PublishReturn("test") /\ UNCHANGED <<smVars, appVars>>

\* ------------------------------------ SpecReg: the registry and its caller
\* subscribe(), lines 43-47, by a caller that makes one call after another.
RegSubscribe(kind, handler) ==
  /\ Len(subscribers[kind]) < MaxRegs
  /\ lock = "free"
  /\ subscribers' = Subscribe(subscribers, kind, handler)
  /\ unsub' = NoUnsubscribe
  /\ UNCHANGED <<pub, lock>>

\* A buggy unsubscribe without its except clause.
NoExcept(outcome) == FALSE

\* except ValueError, line 55: the error of list.remove is caught and logged.
CatchesValueError(outcome) == outcome = "ValueError"

\* unsubscribe(), lines 49-56; unsub keeps the call's arguments, the
\* registry as the call found it and whether the call raised.
RegUnsubscribe(kind, handler) ==
  /\ lock = "free"
  /\ subscribers' = Unsubscribe(subscribers, kind, handler)
  /\ LET outcome == IF \E i \in 1..Len(subscribers[kind]) :
                          subscribers[kind][i] = handler
                    THEN "removed" ELSE "ValueError"
     IN  unsub' = [called |-> TRUE, kind |-> kind, handler |-> handler,
                   before |-> subscribers,
                   raised |-> outcome = "ValueError" /\ ~CatchesValueError(outcome)]
  /\ UNCHANGED <<pub, lock>>

NextReg ==
  \/ \E k \in TestKinds, h \in MockHandlers :
       RegSubscribe(k, h) /\ UNCHANGED <<smVars, appVars>>
  \/ \E k \in TestKinds, h \in MockHandlers :
       RegUnsubscribe(k, h) /\ UNCHANGED <<smVars, appVars>>

\* ------------------------------------------------------------ ServerManager
Pids == 1..MaxProcs

\* Threads that call shutdown_server.
SdCallers == {"monitor", "main"}

NoChild == [state |-> "unborn", returncode |-> 0, terms |-> 0, kills |-> 0]

\* A shutdown_server call that has not begun.  proc is process_to_terminate;
\* sigs and kills count the polite signals and the kill() calls of this call;
\* entry, grace and killwait remember what the call's checks and waits saw.
IdleCall ==
  [pc |-> "idle", proc |-> 0, sigs |-> 0, kills |-> 0, entry |-> "none",
   grace |-> "none", killwait |-> "none", second |-> FALSE]

IdleWait ==
  [pc |-> "idle", retries |-> 0, i |-> 0, log |-> <<>>, result |-> FALSE]

\* Popen.poll() is None
Running(p) == children[p].state = "running"

\* The child process ends (on its own, or because of a signal it was sent).
ChildExits(p, code) ==
  /\ Running(p)
  /\ children' = [children EXCEPT ![p].state = "exited", ![p].returncode = code]

\* A buggy start_server that launches without validating its paths.
SpawnsUnchecked(paths, spawn) ==
  \E p \in Pids :
    /\ children[p].state = "unborn"
    /\ \A q \in Pids : q < p => children[q].state # "unborn"
    /\ children' = [children EXCEPT ![p].state = "running"]
    /\ server_process' = p

\* start_server(), lines 46-112.  paths: what the path checks find;
\* spawn: whether Popen succeeds.
start_server(paths, spawn) ==
  IF paths # "ok"
  THEN \* lines 51-66: return None, nothing spawned, the handle untouched
       UNCHANGED <<server_process, children>>
  ELSE IF ~spawn
       THEN \* lines 103-112: Popen raised
            /\ server_process' = 0
            /\ UNCHANGED children
       ELSE \* lines 91-102
            /\ \E p \in Pids :
                 /\ children[p].state = "unborn"
                 /\ \A q \in Pids : q < p => children[q].state # "unborn"
                 /\ children' = [children EXCEPT ![p].state = "running"]
                 /\ server_process' = p

\* A buggy entry check that tests only whether a handle is stored.
IgnoresExit(p) == FALSE

\* line 130: self.server_process.poll() is not None
AlreadyExited(p) == ~Running(p)

\* shutdown_server() is called by thread t.
SdCall(t) ==
  /\ sd[t].pc \in {"idle", "done", "raised"}
  /\ sd' = [sd EXCEPT ![t] =
              [IdleCall EXCEPT !.pc = "check1",
                               !.second = sd[t].pc \in {"done", "raised"}]]
  /\ UNCHANGED <<server_process, children>>

\* line 130, first operand: not self.server_process
SdCheck1(t) ==
  /\ sd[t].pc = "check1"
  /\ sd' = [sd EXCEPT ![t].pc = IF server_process = 0 THEN "clear" ELSE "check2",
                      ![t].entry = IF server_process = 0 THEN "untracked" ELSE @]
  /\ UNCHANGED <<server_process, children>>

\* line 130, second operand: self.server_process is read again and polled.
\* A handle cleared in between makes the read None: AttributeError.
SdCheck2(t) ==
  /\ sd[t].pc = "check2"
  /\ sd' = [sd EXCEPT
              ![t].pc = IF server_process = 0 THEN "raised"
                        ELSE IF AlreadyExited(server_process) THEN "clear"
                        ELSE "capture",
              ![t].entry = IF server_process = 0 THEN "lost"
                           ELSE IF Running(server_process) THEN "running"
                           ELSE "exited"]
  /\ UNCHANGED <<server_process, children>>

\* lines 131-133
SdClear(t) ==
  /\ sd[t].pc = "clear"
  /\ server_process' = 0
  /\ sd' = [sd EXCEPT ![t].pc = "done"]
  /\ UNCHANGED children

\* lines 135-136: process_to_terminate = self.server_process; its pid is read
\* (AttributeError, outside the try, when the handle has been cleared).
SdCapture(t) ==
  /\ sd[t].pc = "capture"
  /\ sd' = [sd EXCEPT ![t].pc = IF server_process = 0 THEN "raised" ELSE "signal",
                      ![t].proc = server_process]
  /\ UNCHANGED <<server_process, children>>

\* lines 139-157: the polite signal.  how = "sent": the signal call returned
\* (os.kill, os.killpg, or the send_signal fallback); "lookup": killpg raised
\* ProcessLookupError, which is logged; "error": the call raised past the
\* inner handlers and is caught at line 172.
SdSignal(t, how) ==
  /\ sd[t].pc = "signal"
  /\ sd' = [sd EXCEPT ![t].sigs = @ + 1,
                      ![t].pc = IF how = "error" THEN "except" ELSE "grace"]
  /\ children' = IF how = "sent"
                 THEN [children EXCEPT ![sd[t].proc].terms = @ + 1]
                 ELSE children
  /\ UNCHANGED server_process

\* A buggy escalation that kills whether or not the child exited in time.
KillsAlways(p) == TRUE

\* lines 160-164: wait(timeout=10) raises TimeoutExpired while the child runs.
GraceTimesOut(p) == Running(p)

\* line 160: wait(timeout=10) returns or times out.
SdGrace(t) ==
  /\ sd[t].pc = "grace"
  /\ sd' = [sd EXCEPT
              ![t].pc = IF GraceTimesOut(sd[t].proc) THEN "kill" ELSE "finally",
              ![t].grace = IF Running(sd[t].proc) THEN "timeout" ELSE "exited"]
  /\ UNCHANGED <<server_process, children>>

\* line 164: process_to_terminate.kill(); an OS error it raises is not caught
\* here and leaves through the finally clause.
SdKill(t, raises) ==
  /\ sd[t].pc = "kill"
  /\ sd' = [sd EXCEPT ![t].kills = @ + 1,
                      ![t].pc = IF raises THEN "finally_raise" ELSE "killwait"]
  /\ children' = [children EXCEPT ![sd[t].proc].kills = @ + 1]
  /\ UNCHANGED server_process

\* A buggy escalation that kills again for as long as the child is alive.
KillsAgain(alive) == IF alive THEN "kill" ELSE "finally"

\* lines 167-171: whether the wait after the kill returned or timed out, the
\* outcome is logged and the call goes on to its finally clause.
AfterKillWait(alive) == "finally"

\* lines 165-171: wait(timeout=5) after the kill; every outcome is only logged.
SdKillWait(t) ==
  /\ sd[t].pc = "killwait"
  /\ sd' = [sd EXCEPT
              ![t].pc = AfterKillWait(Running(sd[t].proc)),
              ![t].killwait = IF Running(sd[t].proc) THEN "timeout" ELSE "exited"]
  /\ UNCHANGED <<server_process, children>>

\* lines 172-181: the signal raised; kill if the child still runs, then
\* wait(timeout=5) with every exception caught.
SdExcept(t, raises) ==
  /\ sd[t].pc = "except"
  /\ IF Running(sd[t].proc)
     THEN /\ sd' = [sd EXCEPT ![t].kills = @ + 1,
                              ![t].pc = IF raises THEN "finally_raise"
                                        ELSE "finally"]
          /\ children' = [children EXCEPT ![sd[t].proc].kills = @ + 1]
     ELSE /\ ~raises
          /\ sd' = [sd EXCEPT ![t].pc = "finally"]
          /\ UNCHANGED children
  /\ UNCHANGED server_process

\* A buggy shutdown that forgets the finally clause.
KeepsHandle(h) == h

\* lines 182-183: finally: self.server_process = None
ClearedHandle(h) == 0

SdFinally(t) ==
  /\ sd[t].pc \in {"finally", "finally_raise"}
  /\ server_process' = ClearedHandle(server_process)
  /\ sd' = [sd EXCEPT ![t].pc = IF sd[t].pc = "finally" THEN "done" ELSE "raised"]
  /\ UNCHANGED children

SdActive(t) == sd[t].pc \notin {"idle", "done", "raised"}

\* A buggy loop that goes on after a successful connect.
NeverReturnsEarly(connected) == FALSE

\* lines 118-120: a successful connect returns True at once.
ReturnsOnConnect(connected) == connected

\* wait_for_server_availability(retries=n), line 114.
WaCall(n) ==
  /\ wa.pc \in {"idle", "done"}
  /\ wa' = [IdleWait EXCEPT !.pc = "loop", !.retries = n]

\* One iteration of the loop, lines 116-124: a connect attempt that succeeds
\* (connected) or raises an OSError, after which the loop sleeps.
WaAttempt(connected) ==
  /\ wa.pc = "loop"
  /\ wa.i < wa.retries
  /\ wa' = IF ReturnsOnConnect(connected)
           THEN [wa EXCEPT !.log = Append(@, connected), !.result = TRUE,
                           !.pc = "done"]
           ELSE [wa EXCEPT !.log = Append(@, connected), !.i = @ + 1]

\* lines 126-127: the range is exhausted.
WaExhausted ==
  /\ wa.pc = "loop"
  /\ wa.i >= wa.retries
  /\ wa' = [wa EXCEPT !.result = FALSE, !.pc = "done"]

\* ------------------------------------- SpecSM: one caller of ServerManager
SmIdle == ~SdActive("monitor") /\ wa.pc # "loop"

NextSM ==
  \/ \E paths \in {"ok", "no_dir", "no_python", "no_main"}, spawn \in BOOLEAN :
       /\ SmIdle
       /\ \E p \in Pids : children[p].state = "unborn"
       /\ start_server(paths, spawn)
       /\ sd' = [sd EXCEPT !["monitor"] = IdleCall]
       /\ wa' = IdleWait
       /\ UNCHANGED <<busVars, appVars>>
  \/ SmIdle /\ SdCall("monitor") /\ wa' = IdleWait /\ UNCHANGED <<busVars, appVars>>
  \/ SdCheck1("monitor") /\ UNCHANGED <<wa, busVars, appVars>>
  \/ SdCheck2("monitor") /\ UNCHANGED <<wa, busVars, appVars>>
  \/ SdClear("monitor") /\ UNCHANGED <<wa, busVars, appVars>>
  \/ SdCapture("monitor") /\ UNCHANGED <<wa, busVars, appVars>>
  \/ \E how \in {"sent", "lookup", "error"} :
       SdSignal("monitor", how) /\ UNCHANGED <<wa, busVars, appVars>>
  \/ SdGrace("monitor") /\ UNCHANGED <<wa, busVars, appVars>>
  \/ \E raises \in BOOLEAN : SdKill("monitor", raises) /\ UNCHANGED <<wa, busVars, appVars>>
  \/ SdKillWait("monitor") /\ UNCHANGED <<wa, busVars, appVars>>
  \/ \E raises \in BOOLEAN : SdExcept("monitor", raises) /\ UNCHANGED <<wa, busVars, appVars>>
  \/ SdFinally("monitor") /\ UNCHANGED <<wa, busVars, appVars>>
  \/ \E p \in Pids, code \in {0, 1} :
       ChildExits(p, code) /\ UNCHANGED <<server_process, sd, wa, busVars, appVars>>
  \/ \E n \in 0..MaxRetries :
       /\ SmIdle
       /\ WaCall(n)
       /\ sd' = [sd EXCEPT !["monitor"] = IdleCall]
       /\ UNCHANGED <<server_process, children, busVars, appVars>>
  \/ \E connected \in BOOLEAN :
       WaAttempt(connected) /\ UNCHANGED <<server_process, children, sd, busVars, appVars>>
  \/ WaExhausted /\ UNCHANGED <<server_process, children, sd, busVars, appVars>>

InitSM ==
  /\ server_process = 0
  /\ children = [p \in Pids |-> NoChild]
  /\ sd = [t \in SdCallers |-> IdleCall]
  /\ wa = IdleWait

\* ------------------------------------------------- the launcher: handlers
\* The callables the launcher subscribes (__main__.py 42-69 and 93-95,
\* gui_manager.py 44-46).
MainHandlers ==
  <<[kind |-> "APPLICATION_QUIT_REQUESTED", handler |-> "_handle_main_thread_quit_request"],
    [kind |-> "APPLICATION_CRITICAL_ERROR", handler |-> "_handle_critical_error"],
    [kind |-> "SERVER_STOPPED_UNEXPECTEDLY", handler |-> "_handle_server_stopped_unexpectedly"],
    [kind |-> "APP_LOGIC_SHUTDOWN_COMPLETE", handler |-> "_handle_app_logic_shutdown_complete"],
    [kind |-> "TRAY_MANAGER_SHUTDOWN_COMPLETE", handler |-> "_handle_tray_manager_shutdown_complete"]>>

GuiHandlers ==
  <<[kind |-> "APPLICATION_QUIT_REQUESTED", handler |-> "handle_application_quit_request"],
    [kind |-> "APPLICATION_CRITICAL_ERROR", handler |-> "handle_critical_error_event"],
    [kind |-> "SERVER_STOPPED_UNEXPECTEDLY", handler |-> "handle_server_stopped_unexpectedly_event"]>>

RECURSIVE SubscribeAll(_, _)
SubscribeAll(reg, hs) ==
  IF hs = <<>> THEN reg
  ELSE SubscribeAll(Subscribe(reg, Head(hs).kind, Head(hs).handler), Tail(hs))

RECURSIVE UnsubscribeAll(_, _)
UnsubscribeAll(reg, hs) ==
  IF hs = <<>> THEN reg
  ELSE UnsubscribeAll(Unsubscribe(reg, Head(hs).kind, Head(hs).handler), Tail(hs))

\* A buggy event whose set() flips the flag.
EventToggled(flag) == ~flag

\* app_shutdown_event.set() (__main__.py 45, 52, 60 and 153): the flag after
\* the call, given the flag before it.
EventSet(flag) == TRUE

\* A buggy wiring whose critical-error handler only shows the error page.
OnlyShowsError ==
  {"_handle_main_thread_quit_request", "_handle_server_stopped_unexpectedly"}

\* Handlers whose body ends in app_shutdown_event.set() (__main__.py 45, 52, 60).
SetsShutdown ==
  {"_handle_main_thread_quit_request", "_handle_critical_error",
   "_handle_server_stopped_unexpectedly"}

\* A buggy wiring that also completes on the announcement of the child's exit.
CompletesOnExit(h) ==
  h \in {"_handle_app_logic_shutdown_complete", "_handle_server_stopped_unexpectedly"}

\* _handle_app_logic_shutdown_complete (__main__.py 62-65) is the one
\* handler that sets _app_logic_completed_event.
SetsCompleted(h) == h = "_handle_app_logic_shutdown_complete"

\* webview_window.destroy(): the window is gone and webview.start() can return.
Destroyed(g) == [g EXCEPT !.window = "destroyed", !.destroys = @ + 1]

\* handle_application_quit_request, gui_manager.py 269-286: the reference is
\* nulled, then the window destroyed; nothing happens without a reference.
handle_application_quit_request(g) ==
  IF g.webview_window THEN [Destroyed(g) EXCEPT !.webview_window = FALSE] ELSE g

\* One iteration of publish's loop over a launcher handler.  The handlers'
\* UI calls go through _execute_js, which catches every exception, so each
\* of them returns.
PublishInvokeApp(t) ==
  LET f == pub[t] IN
  /\ ~(mainpc \in {"done", "crashed"})
  /\ f.status = "running"
  /\ f.kind \in AppKinds
  /\ f.idx <= Len(HandlersToCall(f))
  /\ LET h == HandlersToCall(f)[f.idx] IN
       /\ pub' = [pub EXCEPT ![t] = AfterCall(f, h, "return", FALSE)]
       /\ app_shutdown_event' = IF h \in SetsShutdown
                                THEN EventSet(app_shutdown_event)
                                ELSE app_shutdown_event
       /\ app_logic_completed_event' =
            (app_logic_completed_event \/ SetsCompleted(h))
       /\ tray_manager_completed_event' =
            (tray_manager_completed_event \/ h = "_handle_tray_manager_shutdown_complete")
       /\ gui_content_loaded_event' =
            (gui_content_loaded_event \/ h = "_handle_gui_content_loaded")
       /\ gui' = IF h = "handle_application_quit_request"
                 THEN handle_application_quit_request(gui) ELSE gui
  /\ UNCHANGED <<subscribers, unsub, lock, smVars, redirect_thread_stop_event, mainpc, mon,
                 poller, rl, tray, published>>

\* event_publisher.publish(kind, args) begun by thread t.
AppPublish(t, kind, args) ==
  /\ PublishBegin(t, kind, args)
  /\ published' = [published EXCEPT ![kind] = Append(@, args)]

\* The publish call of thread t has returned to its caller.
Returned(t) == pub[t].status = "returned"

InitApp ==
  /\ app_shutdown_event = FALSE
  /\ app_logic_completed_event = FALSE
  /\ tray_manager_completed_event = FALSE
  /\ gui_content_loaded_event = FALSE
  /\ redirect_thread_stop_event = FALSE
  /\ mainpc = "start"
  /\ mon = [pc |-> "not_started", after |-> "none", server_process |-> 0,
            redirect_thread |-> FALSE, sd_calls |-> 0, observed |-> FALSE,
            launch |-> "none", port_kills |-> 0, port_result |-> "none"]
  /\ poller = [pc |-> "not_started", load_urls |-> 0, statuses |-> 0, errors |-> 0]
  /\ rl = [elapsed |-> 0, checks |-> 0, success_check |-> 0, cancel_pc |-> "none",
           cancel_checks |-> 0, cancel_elapsed |-> 0]
  /\ tray = [pc |-> "not_started", icon_stops |-> 0]
  /\ gui = [webview_window |-> FALSE, window |-> "none",
            initial_load_done |-> FALSE, destroys |-> 0, pc |-> "idle"]
  /\ published = [k \in AppKinds |-> <<>>]

Init == InitBus /\ InitSM /\ InitApp

vars == <<busVars, smVars, appVars>>

SpecBus == Init /\ [][NextBus]_vars

SpecSM == Init /\ [][NextSM]_vars

SpecReg == Init /\ [][NextReg]_vars

\* A buggy main() that builds the GUIManager before it subscribes its own
\* handlers.
GuiSubscribesFirst(reg) ==
  SubscribeAll(SubscribeAll(reg, GuiHandlers), MainHandlers)

\* main(), lines 199-203 and then 226-235: main's handlers are subscribed
\* first, GUIManager's constructor (gui_manager.py 44-46) subscribes later.
SetupSubscriptions(reg) ==
  SubscribeAll(SubscribeAll(reg, MainHandlers), GuiHandlers)

\* ------------------------------------------------------- Spec: main()
\* main(), lines 186-264: the handlers are subscribed, the managers built
\* (GUIManager's constructor subscribes its own handlers), the window
\* created, the tray and the monitor threads started.  window_ok = FALSE:
\* prepare_and_launch_gui raises after setting the shutdown event (gui_manager
\* 262-267) and main falls through its except clause to the finally clause.
MainSetup(window_ok) ==
  /\ mainpc = "start"
  /\ lock = "free"
  /\ subscribers' = SetupSubscriptions(subscribers)
  /\ IF window_ok
     THEN /\ gui' = [gui EXCEPT !.webview_window = TRUE, !.window = "open"]
          /\ tray' = [tray EXCEPT !.pc = "starting"]
          /\ mon' = [mon EXCEPT !.pc = "start"]
          /\ mainpc' = "webview"
          /\ UNCHANGED app_shutdown_event
     ELSE /\ app_shutdown_event' = EventSet(app_shutdown_event)
          /\ mainpc' = "wait_logic"
          /\ UNCHANGED <<gui, tray, mon>>
  /\ UNCHANGED <<pub, unsub, lock, smVars, app_logic_completed_event,
                 tray_manager_completed_event, gui_content_loaded_event,
                 redirect_thread_stop_event, poller, rl, published>>

\* line 269: start_webview_blocking() returns once the window is destroyed
\* (or at once when there is no window), and the UI callbacks have ended.
MainWebviewReturns ==
  /\ mainpc = "webview"
  /\ gui.window = "destroyed" \/ ~gui.webview_window
  /\ gui.pc = "idle"
  /\ mainpc' = "wait_shutdown"
  /\ UNCHANGED <<busVars, smVars, eventVars, mon, poller, rl, tray, gui, published>>

\* lines 276 and 286-287: app_shutdown_event.wait(), then the finally clause.
MainAwaitShutdown ==
  /\ mainpc = "wait_shutdown"
  /\ app_shutdown_event
  /\ mainpc' = "wait_logic"
  /\ UNCHANGED <<busVars, smVars, eventVars, mon, poller, rl, tray, gui, published>>

\* line 290: _app_logic_completed_event.wait(timeout=12) returns, the event
\* set or the time out; both branches only log.
MainAwaitLogic ==
  /\ mainpc = "wait_logic"
  /\ mainpc' = "sweep"
  /\ UNCHANGED <<busVars, smVars, eventVars, mon, poller, rl, tray, gui, published>>

\* line 302: getattr(server_manager_instance, 'server_process', None)
MainSweepCheck ==
  /\ mainpc = "sweep"
  /\ mainpc' = IF server_process = 0 THEN "wait_tray" ELSE "sweep_poll"
  /\ UNCHANGED <<busVars, smVars, eventVars, mon, poller, rl, tray, gui, published>>

\* lines 303-305: server_process is read again and polled (AttributeError out
\* of the finally clause if it has been cleared meanwhile); a running child
\* is handed to shutdown_server.
MainSweepPoll ==
  /\ mainpc = "sweep_poll"
  /\ IF server_process = 0
     THEN mainpc' = "crashed" /\ UNCHANGED smVars
     ELSE IF Running(server_process)
          THEN mainpc' = "shutdown_server" /\ SdCall("main") /\ UNCHANGED wa
          ELSE mainpc' = "wait_tray" /\ UNCHANGED smVars
  /\ UNCHANGED <<busVars, eventVars, mon, poller, rl, tray, gui, published>>

\* line 305 returns, or raises out of main().
MainSweepDone ==
  /\ mainpc = "shutdown_server"
  /\ sd["main"].pc \in {"done", "raised"}
  /\ mainpc' = IF sd["main"].pc = "done" THEN "wait_tray" ELSE "crashed"
  /\ sd' = [sd EXCEPT !["main"] = IdleCall]
  /\ UNCHANGED <<busVars, server_process, children, wa, eventVars, mon, poller, rl,
                 tray, gui, published>>

\* line 312: _tray_manager_completed_event.wait(timeout=5) returns.
MainAwaitTray ==
  /\ mainpc = "wait_tray"
  /\ mainpc' = "destroy"
  /\ UNCHANGED <<busVars, smVars, eventVars, mon, poller, rl, tray, gui, published>>

\* lines 319-329: destroy the window if GUIManager still holds a reference.
MainDestroy ==
  /\ mainpc = "destroy"
  /\ gui' = IF gui.webview_window THEN Destroyed(gui) ELSE gui
  /\ mainpc' = "unsubscribe"
  /\ UNCHANGED <<busVars, smVars, eventVars, mon, poller, rl, tray, published>>

\* lines 332-339: main's handlers are unsubscribed and main() returns.
MainUnsubscribe ==
  /\ mainpc = "unsubscribe"
  /\ lock = "free"
  /\ subscribers' = UnsubscribeAll(subscribers, MainHandlers)
  /\ mainpc' = "done"
  /\ UNCHANGED <<pub, unsub, lock, smVars, eventVars, mon, poller, rl, tray, gui, published>>

MainReturned == mainpc \in {"done", "crashed"}

\* The other threads are daemons (lines 141 and 261, tray_manager.py 108):
\* they run for as long as main() has not returned.
Alive == ~MainReturned

\* A step of shutdown_server, called by thread t.
SdStep(t) ==
  \/ SdCheck1(t)
  \/ SdCheck2(t)
  \/ SdClear(t)
  \/ SdCapture(t)
  \/ \E how \in {"sent", "lookup", "error"} : SdSignal(t, how)
  \/ SdGrace(t)
  \/ \E raises \in BOOLEAN : SdKill(t, raises)
  \/ SdKillWait(t)
  \/ \E raises \in BOOLEAN : SdExcept(t, raises)
  \/ SdFinally(t)

MainStep ==
  \/ \E window_ok \in BOOLEAN : MainSetup(window_ok)
  \/ MainWebviewReturns
  \/ MainAwaitShutdown
  \/ MainAwaitLogic
  \/ MainSweepCheck
  \/ MainSweepPoll
  \/ MainSweepDone
  \/ MainAwaitTray
  \/ MainDestroy
  \/ MainUnsubscribe
  \/ SdStep("main") /\ UNCHANGED <<wa, busVars, appVars>>

\* -------------------------------------------- Spec: app_logic_thread_func
\* Threads other than the monitor, and the state a monitor step of its own
\* leaves alone.
MonOthers == <<mainpc, poller, tray, gui, rl>>

MonGoto(pc) == mon' = [mon EXCEPT !.pc = pc]

\* line 97: subscribe the thread's handler for GUI_WINDOW_CONTENT_LOADED.
MonStart ==
  /\ Alive
  /\ mon.pc = "start"
  /\ lock = "free"
  /\ subscribers' = Subscribe(subscribers, "GUI_WINDOW_CONTENT_LOADED",
                              "_handle_gui_content_loaded")
  /\ MonGoto("wait_gui")
  /\ UNCHANGED <<pub, unsub, lock, smVars, eventVars, MonOthers, published>>

\* The monitor publishes and resumes at `after` once publish has returned.
MonPublish(kind, args, after) ==
  /\ AppPublish("monitor", kind, args)
  /\ mon' = [mon EXCEPT !.pc = "publishing", !.after = after]

MonPublishDone ==
  /\ Alive
  /\ mon.pc = "publishing"
  /\ Returned("monitor")
  /\ MonGoto(mon.after)
  /\ pub' = [pub EXCEPT !["monitor"] = IdleFrame]
  /\ UNCHANGED <<subscribers, unsub, lock, smVars, eventVars, MonOthers, published>>

\* A message is the sequence of the parts it is formatted from: its literal
\* text and the values interpolated into it.
Contains(message, part) == \E i \in 1..Len(message) : message[i] = part

\* line 111: the message of the GUI timeout, a literal.
GuiNotLoadedMessage == <<"GUI did not load correctly. Check launcher logs.">>

\* line 132: the message of a failed launch, a literal whatever the failure.
StartFailedMessage(launch) ==
  <<"Could not start the ComfyUI server. Please check the server.log file for details.">>

\* The path start_server found missing (server_manager.py 51-66).
MissingPath(launch) ==
  CASE launch = "no_dir"    -> "comfyui_path"
    [] launch = "no_python" -> "python_executable"
    [] launch = "no_main"   -> "comfyui_path/main.py"
    [] OTHER                -> "none"

PathFailures == {"no_dir", "no_python", "no_main"}

\* How a call of start_server ended.
LaunchResult(paths, spawn) ==
  IF paths # "ok" THEN paths ELSE IF spawn THEN "ok" ELSE "popen_failed"

\* A buggy monitor that carries on with the launch after the timeout.
CarriesOn == "init_checks"

\* line 112: the return after the timeout leads to the finally clause.
AfterGuiTimeout == "cl_stop"

\* lines 109-112: wait(timeout=20) for the initial content; on a timeout
\* APPLICATION_CRITICAL_ERROR is published and the thread returns.
MonAwaitGui ==
  /\ Alive
  /\ mon.pc = "wait_gui"
  /\ IF gui_content_loaded_event
     THEN MonGoto("init_checks") /\ UNCHANGED <<busVars, published>>
     ELSE MonPublish("APPLICATION_CRITICAL_ERROR", GuiNotLoadedMessage,
                     AfterGuiTimeout)
  /\ UNCHANGED <<smVars, eventVars, MonOthers>>

\* What kill_process_on_port() may meet (server_manager.py 25-43): it kills
\* the process that holds the port, finds none, is denied access, or fails
\* otherwise.  Every exception is caught inside it and it returns None.
PortOutcomes == {"killed", "none_found", "access_denied", "error"}

\* A buggy monitor that gives up when the port could not be cleared.
PortFailureStops(how) ==
  IF how \in {"access_denied", "error"} THEN "cl_stop" ELSE "start_check"

\* lines 121-123: the result only decides whether a warning is logged.
AfterKillPort(how) == "start_check"

\* lines 120-122: kill_process_on_port() is called.  port_kills counts the
\* calls; port_result is how the call went, kept until start_server is called.
MonKillPort(how) ==
  /\ Alive
  /\ mon.pc = "kill_port"
  /\ mon' = [mon EXCEPT !.pc = AfterKillPort(how), !.port_kills = @ + 1,
                        !.port_result = how]
  /\ UNCHANGED <<busVars, smVars, eventVars, MonOthers, published>>

\* A check of the shutdown event that returns from the try body when it is
\* set: lines 113, 117 and 119 before kill_process_on_port (init_checks),
\* lines 123 and 125 after it (start_check).
MonCheck(pc, next) ==
  /\ Alive
  /\ mon.pc = pc
  /\ MonGoto(IF app_shutdown_event THEN "cl_stop" ELSE next)
  /\ UNCHANGED <<busVars, smVars, eventVars, MonOthers, published>>

\* A buggy monitor that goes on to supervise after a failed launch.
SupervisesAnyway == "loop"

\* line 133: the return after a failed launch leads to the finally clause.
AfterLaunchFailure == "cl_stop"

\* lines 127-133: start_server; without a process the thread publishes
\* APPLICATION_CRITICAL_ERROR and returns.
MonStartServer(paths, spawn) ==
  /\ Alive
  /\ mon.pc = "start_server"
  /\ start_server(paths, spawn)
  /\ IF paths = "ok" /\ spawn
     THEN /\ mon' = [mon EXCEPT !.pc = "post_start",
                                !.server_process = server_process',
                                !.launch = LaunchResult(paths, spawn),
                                !.port_result = "none"]
          /\ UNCHANGED <<busVars, published>>
     ELSE /\ AppPublish("monitor", "APPLICATION_CRITICAL_ERROR",
                        StartFailedMessage(LaunchResult(paths, spawn)))
          /\ mon' = [mon EXCEPT !.pc = "publishing", !.after = AfterLaunchFailure,
                                !.launch = LaunchResult(paths, spawn),
                                !.port_result = "none"]
  /\ UNCHANGED <<sd, wa, eventVars, MonOthers>>

\* lines 134-143: a last check, then the redirect thread is started.
MonStartRedirect ==
  /\ Alive
  /\ mon.pc = "post_start"
  /\ IF app_shutdown_event
     THEN MonGoto("cl_stop") /\ UNCHANGED poller
     ELSE /\ mon' = [mon EXCEPT !.pc = "loop", !.redirect_thread = TRUE]
          /\ poller' = [poller EXCEPT !.pc = "top"]
  /\ UNCHANGED <<busVars, smVars, eventVars, mainpc, tray, gui, published, rl>>

\* line 147: while not shutdown_event_param.is_set()
MonLoop ==
  /\ Alive
  /\ mon.pc = "loop"
  /\ MonGoto(IF app_shutdown_event THEN "cl_stop" ELSE "poll")
  /\ UNCHANGED <<busVars, smVars, eventVars, MonOthers, published>>

\* line 148: server_process.poll() is not None
MonPoll ==
  /\ Alive
  /\ mon.pc = "poll"
  /\ MonGoto(IF Running(mon.server_process) THEN "loop_wait" ELSE "exited")
  /\ UNCHANGED <<busVars, smVars, eventVars, MonOthers, published>>

\* A buggy monitor that never announces the exit.
NeverAnnounces(shutting_down) == FALSE

\* line 151: only publish if not already shutting down.
AnnouncesExit(shutting_down) == ~shutting_down

\* A buggy monitor that relies on the loop condition of line 147 and does
\* not read the event again.
NotReadAgain(event) == FALSE

\* line 151: shutdown_event_param.is_set(), read again after poll().
ShuttingDownAt151(event) == event

\* lines 149-154: the child has exited.  SERVER_STOPPED_UNEXPECTEDLY is
\* published with its pid and return code unless the shutdown event is set;
\* either way the loop is left.
MonExited ==
  /\ Alive
  /\ mon.pc = "exited"
  /\ IF AnnouncesExit(ShuttingDownAt151(app_shutdown_event))
     THEN /\ AppPublish("monitor", "SERVER_STOPPED_UNEXPECTEDLY",
                        <<mon.server_process,
                          children[mon.server_process].returncode>>)
          /\ mon' = [mon EXCEPT !.pc = "publishing", !.after = "set_shutdown",
                                !.observed = ~app_shutdown_event]
     ELSE /\ mon' = [mon EXCEPT !.pc = "cl_stop",
                                !.observed = ~app_shutdown_event]
          /\ UNCHANGED <<busVars, published>>
  /\ UNCHANGED <<smVars, eventVars, MonOthers>>

\* line 153: shutdown_event_param.set(), then break.
MonSetShutdown ==
  /\ Alive
  /\ mon.pc = "set_shutdown"
  /\ app_shutdown_event' = EventSet(app_shutdown_event)
  /\ MonGoto("cl_stop")
  /\ UNCHANGED <<busVars, smVars, app_logic_completed_event,
                 tray_manager_completed_event, gui_content_loaded_event,
                 redirect_thread_stop_event, MonOthers, published>>

\* line 155: shutdown_event_param.wait(timeout=1)
MonLoopWait ==
  /\ Alive
  /\ mon.pc = "loop_wait"
  /\ MonGoto(IF app_shutdown_event THEN "cl_stop" ELSE "loop")
  /\ UNCHANGED <<busVars, smVars, eventVars, MonOthers, published>>

\* line 164: redirect_thread_stop_event.set()
MonCleanupStop ==
  /\ Alive
  /\ mon.pc = "cl_stop"
  /\ redirect_thread_stop_event' = TRUE
  /\ MonGoto("cl_join")
  /\ UNCHANGED <<busVars, smVars, app_shutdown_event, app_logic_completed_event,
                 tray_manager_completed_event, gui_content_loaded_event,
                 MonOthers, published>>

\* lines 166-168: join(timeout=3) returns, the redirect thread ended or not.
MonCleanupJoin ==
  /\ Alive
  /\ mon.pc = "cl_join"
  /\ MonGoto("cl_check")
  /\ UNCHANGED <<busVars, smVars, eventVars, MonOthers, published>>

\* A buggy cleanup that leaves the child to main()'s sweep.
LeavesChildToMain(proc) == FALSE

\* line 170: server_process and server_process.poll() is None, on the
\* thread's local server_process.
NeedsShutdown(proc) == proc # 0 /\ Running(proc)

\* lines 170-172: shutdown_server() if the thread's child still runs.
MonCleanupCheck ==
  /\ Alive
  /\ mon.pc = "cl_check"
  /\ IF NeedsShutdown(mon.server_process)
     THEN /\ SdCall("monitor")
          /\ mon' = [mon EXCEPT !.pc = "shutdown_server", !.sd_calls = @ + 1]
     ELSE MonGoto("cl_unsubscribe") /\ UNCHANGED <<server_process, children, sd>>
  /\ UNCHANGED <<wa, busVars, eventVars, MonOthers, published>>

\* line 172 returns, or raises out of the finally clause and ends the thread.
MonCleanupShutdownDone ==
  /\ Alive
  /\ mon.pc = "shutdown_server"
  /\ sd["monitor"].pc \in {"done", "raised"}
  /\ MonGoto(IF sd["monitor"].pc = "done" THEN "cl_unsubscribe" ELSE "crashed")
  /\ sd' = [sd EXCEPT !["monitor"] = IdleCall]
  /\ UNCHANGED <<busVars, server_process, children, wa, eventVars, MonOthers,
                 published>>

\* line 175
MonCleanupUnsubscribe ==
  /\ Alive
  /\ mon.pc = "cl_unsubscribe"
  /\ lock = "free"
  /\ subscribers' = Unsubscribe(subscribers, "GUI_WINDOW_CONTENT_LOADED",
                                "_handle_gui_content_loaded")
  /\ MonGoto("cl_publish")
  /\ UNCHANGED <<pub, unsub, lock, smVars, eventVars, MonOthers, published>>

\* line 176: publish APP_LOGIC_SHUTDOWN_COMPLETE; the thread ends after it.
MonCleanupPublish ==
  /\ Alive
  /\ mon.pc = "cl_publish"
  /\ MonPublish("APP_LOGIC_SHUTDOWN_COMPLETE", <<>>, "done")
  /\ UNCHANGED <<smVars, eventVars, MonOthers>>

MonFinished == mon.pc \in {"not_started", "done", "crashed"}

MonStep ==
  \/ MonStart
  \/ MonAwaitGui
  \/ MonCheck("init_checks", "kill_port")
  \/ \E how \in PortOutcomes : MonKillPort(how)
  \/ MonCheck("start_check", "start_server")
  \/ \E paths \in {"ok", "no_dir", "no_python", "no_main"}, spawn \in BOOLEAN :
       MonStartServer(paths, spawn)
  \/ MonStartRedirect
  \/ MonLoop
  \/ MonPoll
  \/ MonExited
  \/ MonSetShutdown
  \/ MonLoopWait
  \/ MonCleanupStop
  \/ MonCleanupJoin
  \/ MonCleanupCheck
  \/ MonCleanupShutdownDone
  \/ MonCleanupUnsubscribe
  \/ MonCleanupPublish
  \/ MonPublishDone
  \/ PublishInvokeApp("monitor")
  \/ Alive /\ PublishReturn("monitor") /\ UNCHANGED <<smVars, appVars>>
  \/ Alive /\ SdStep("monitor") /\ UNCHANGED <<wa, busVars, appVars>>

\* ------------------------------------------ Spec: redirect_when_ready_loop
PollGoto(pc) == poller' = [poller EXCEPT !.pc = pc]

PollOthers == <<mainpc, mon, tray, gui>>

\* A buggy loop condition that looks at its own stop event only.
IgnoresShutdown(stop, shutdown) == ~stop

\* line 303: while not stop_event.is_set() and not overall_shutdown_event.is_set()
LoopCondition(stop, shutdown) == ~stop /\ ~shutdown

\* gui_manager.py 303-304: the loop condition, then the time budget;
\* expired: time.time() - start_time > REDIRECT_LOOP_MAX_WAIT_TIME.
PollTop(expired) ==
  /\ Alive
  /\ poller.pc = "top"
  /\ PollGoto(IF ~LoopCondition(redirect_thread_stop_event, app_shutdown_event)
              THEN "done"
              ELSE IF expired THEN "timed_out" ELSE "available")
  /\ UNCHANGED <<busVars, smVars, eventVars, PollOthers, published>>

\* lines 305-308: the budget is used up; load_error_page unless the shutdown
\* event is set, then break.
PollTimedOut ==
  /\ Alive
  /\ poller.pc = "timed_out"
  /\ poller' = [poller EXCEPT !.pc = "done",
                              !.errors = IF app_shutdown_event THEN @ ELSE @ + 1]
  /\ UNCHANGED <<busVars, smVars, eventVars, PollOthers, published>>

\* lines 311-326: wait_for_server_availability(retries=1, delay=0.1), one
\* connect attempt that succeeds or not.  On True the page is faded out if
\* there is a window; on False the loop goes on to its window check.
PollAvailable(connected) ==
  /\ Alive
  /\ poller.pc = "available"
  /\ PollGoto(IF connected
              THEN (IF gui.webview_window THEN "fade_out" ELSE "set_status")
              ELSE "window_check")
  /\ UNCHANGED <<busVars, smVars, eventVars, PollOthers, published>>

\* lines 315-316: sleep(1.5), then the shutdown event is checked again.
PollFadeOut ==
  /\ Alive
  /\ poller.pc = "fade_out"
  /\ PollGoto(IF app_shutdown_event THEN "set_status" ELSE "load_url")
  /\ UNCHANGED <<busVars, smVars, eventVars, PollOthers, published>>

\* line 317: self.webview_window.load_url(target_url); the attribute is read
\* again, and a reference nulled meanwhile ends the thread (AttributeError).
PollLoadUrl ==
  /\ Alive
  /\ poller.pc = "load_url"
  /\ poller' = IF gui.webview_window
               THEN [poller EXCEPT !.pc = "set_status", !.load_urls = @ + 1]
               ELSE [poller EXCEPT !.pc = "crashed"]
  /\ UNCHANGED <<busVars, smVars, eventVars, PollOthers, published>>

\* A buggy loop that goes on polling after it has connected.
KeepsPolling == "top"

\* line 321: break
AfterConnected == "done"

\* lines 320-321: set_status("Connected to ComfyUI."), break.
PollSetStatus ==
  /\ Alive
  /\ poller.pc = "set_status"
  /\ poller' = [poller EXCEPT !.pc = AfterConnected, !.statuses = @ + 1]
  /\ UNCHANGED <<busVars, smVars, eventVars, PollOthers, published>>

\* lines 328-330: stop when the window no longer exists.
PollWindowCheck ==
  /\ Alive
  /\ poller.pc = "window_check"
  /\ PollGoto(IF gui.webview_window THEN "wait" ELSE "done")
  /\ UNCHANGED <<busVars, smVars, eventVars, PollOthers, published>>

\* lines 333-335: stop_event.wait(REDIRECT_LOOP_CHECK_INTERVAL)
PollWait ==
  /\ Alive
  /\ poller.pc = "wait"
  /\ PollGoto(IF redirect_thread_stop_event THEN "done" ELSE "top")
  /\ UNCHANGED <<busVars, smVars, eventVars, PollOthers, published>>

PollFinished == poller.pc \in {"not_started", "done", "crashed"}

\* In a run of main() the loop's clock is not followed: the budget may be
\* found used up at any check.
PollStep ==
  \/ \E expired \in BOOLEAN : PollTop(expired) /\ UNCHANGED rl
  \/ PollTimedOut /\ UNCHANGED rl
  \/ \E connected \in BOOLEAN : PollAvailable(connected) /\ UNCHANGED rl
  \/ PollFadeOut /\ UNCHANGED rl
  \/ PollLoadUrl /\ UNCHANGED rl
  \/ PollSetStatus /\ UNCHANGED rl
  \/ PollWindowCheck /\ UNCHANGED rl
  \/ PollWait /\ UNCHANGED rl

\* --------------------------------------------------------- Spec: the tray
\* TrayManager.run(), tray_manager.py 75-99, on the thread start() made.
\* "ok": icon.run() is entered and blocks; "error": an exception sets the
\* shutdown event and run() returns.
TrayRun(how) ==
  /\ Alive
  /\ tray.pc = "starting"
  /\ tray' = [tray EXCEPT !.pc = IF how = "ok" THEN "running" ELSE "finished"]
  /\ app_shutdown_event' = IF how = "error" THEN EventSet(app_shutdown_event)
                                           ELSE app_shutdown_event
  /\ UNCHANGED <<busVars, smVars, app_logic_completed_event,
                 tray_manager_completed_event, gui_content_loaded_event,
                 redirect_thread_stop_event, mainpc, mon, poller, rl, gui, published>>

\* _on_quit_selected, tray_manager.py 52-56: the user picks Quit.  The
\* shutdown event is set and icon.stop() ends the icon loop, after which
\* run() returns.  Nothing is published.
TrayQuitSelected ==
  /\ Alive
  /\ tray.pc = "running"
  /\ app_shutdown_event' = EventSet(app_shutdown_event)
  /\ tray' = [tray EXCEPT !.pc = "finished", !.icon_stops = @ + 1]
  /\ UNCHANGED <<busVars, smVars, app_logic_completed_event,
                 tray_manager_completed_event, gui_content_loaded_event,
                 redirect_thread_stop_event, mainpc, mon, poller, rl, gui, published>>

\* ------------------------------------------------ Spec: the UI callbacks
\* They run inside webview.start(), that is while main() is at line 269.
GuiOthers == <<mainpc, mon, poller, tray, rl>>

\* on_loaded, gui_manager.py 78-88: the first load publishes
\* GUI_WINDOW_CONTENT_LOADED.
GuiOnLoaded ==
  /\ Alive
  /\ mainpc = "webview"
  /\ gui.window = "open"
  /\ gui.pc = "idle"
  /\ ~gui.initial_load_done
  /\ AppPublish("gui", "GUI_WINDOW_CONTENT_LOADED", <<>>)
  /\ gui' = [gui EXCEPT !.pc = "on_loaded"]
  /\ UNCHANGED <<smVars, eventVars, GuiOthers>>

\* _on_closing, gui_manager.py 50-78: the user closes the window;
\* APPLICATION_QUIT_REQUESTED is published.
GuiOnClosing ==
  /\ Alive
  /\ mainpc = "webview"
  /\ gui.window = "open"
  /\ gui.pc = "idle"
  /\ AppPublish("gui", "APPLICATION_QUIT_REQUESTED", <<>>)
  /\ gui' = [gui EXCEPT !.pc = "_on_closing"]
  /\ UNCHANGED <<smVars, eventVars, GuiOthers>>

\* The callback's publish has returned: on_loaded marks the first load done;
\* _on_closing hides the window if a reference is left, and returns.
GuiCallbackDone ==
  /\ Alive
  /\ gui.pc # "idle"
  /\ Returned("gui")
  /\ gui' = [gui EXCEPT !.pc = "idle",
                        !.initial_load_done = @ \/ gui.pc = "on_loaded"]
  /\ pub' = [pub EXCEPT !["gui"] = IdleFrame]
  /\ UNCHANGED <<subscribers, unsub, lock, smVars, eventVars, GuiOthers, published>>

GuiStep ==
  \/ GuiCallbackDone
  \/ PublishInvokeApp("gui")
  \/ Alive /\ PublishReturn("gui") /\ UNCHANGED <<smVars, appVars>>

\* ------------------------------------------------------------------- Spec
\* The return codes the child ends with in a run of main().
ExitCodes == {1}

\* What the user and the child process do on their own.
EnvStep ==
  \/ TrayQuitSelected
  \/ GuiOnLoaded
  \/ GuiOnClosing
  \/ \E p \in Pids, code \in ExitCodes :
       Alive /\ ChildExits(p, code) /\ UNCHANGED <<server_process, sd, wa, busVars, appVars>>

TrayStep == \E how \in {"ok", "error"} : TrayRun(how)

Next == MainStep \/ MonStep \/ PollStep \/ TrayStep \/ GuiStep \/ EnvStep

Spec == Init /\ [][Next]_vars

\* Every thread that can take a step eventually takes one, and every timed
\* wait eventually returns; the user and the child are under no obligation.
SpecFair ==
  /\ Spec
  /\ WF_vars(MainStep)
  /\ WF_vars(MonStep)
  /\ WF_vars(PollStep)
  /\ WF_vars(TrayStep)
  /\ WF_vars(GuiStep)

\* ------------------------------- SpecPoll: redirect_when_ready_loop alone
\* The loop runs against a clock of whole seconds (sleep(0.1) counts as 0,
\* sleep(1.5) as 2), with the events set and the window destroyed from
\* outside at any moment.
REDIRECT_LOOP_MAX_WAIT_TIME == 120

REDIRECT_LOOP_CHECK_INTERVAL == 2

\* A buggy loop without its time budget.
NeverExpires(elapsed) == FALSE

\* line 304: time.time() - start_time > self.REDIRECT_LOOP_MAX_WAIT_TIME
Expired(elapsed) == elapsed > REDIRECT_LOOP_MAX_WAIT_TIME

PollAlone == <<busVars, smVars, mainpc, mon, tray, published>>

\* __main__.py 138-143: the thread is started, with the window created.
PollBegin ==
  /\ poller.pc = "not_started"
  /\ poller' = [poller EXCEPT !.pc = "top"]
  /\ gui' = [gui EXCEPT !.webview_window = TRUE, !.window = "open"]
  /\ UNCHANGED <<PollAlone, eventVars, rl>>

\* The first cancellation is recorded with where and when it met the loop.
Cancelled ==
  IF rl.cancel_pc = "none"
  THEN [rl EXCEPT !.cancel_pc = poller.pc, !.cancel_checks = rl.checks,
                  !.cancel_elapsed = rl.elapsed]
  ELSE rl

\* Another thread sets app_shutdown_event.
PollShutdownSet ==
  /\ poller.pc \notin {"not_started", "done", "crashed"}
  /\ ~app_shutdown_event
  /\ app_shutdown_event' = TRUE
  /\ rl' = Cancelled
  /\ UNCHANGED <<PollAlone, app_logic_completed_event, tray_manager_completed_event,
                 gui_content_loaded_event, redirect_thread_stop_event, poller, gui>>

\* The monitor's cleanup sets redirect_thread_stop_event (__main__.py 164).
PollStopSet ==
  /\ poller.pc \notin {"not_started", "done", "crashed"}
  /\ ~redirect_thread_stop_event
  /\ redirect_thread_stop_event' = TRUE
  /\ rl' = Cancelled
  /\ UNCHANGED <<PollAlone, app_shutdown_event, app_logic_completed_event,
                 tray_manager_completed_event, gui_content_loaded_event, poller, gui>>

\* handle_application_quit_request runs on another thread; the main-thread
\* handler before it has set the shutdown event.
PollWindowDestroyed ==
  /\ poller.pc \notin {"not_started", "done", "crashed"}
  /\ app_shutdown_event
  /\ gui.webview_window
  /\ gui' = handle_application_quit_request(gui)
  /\ UNCHANGED <<PollAlone, eventVars, poller, rl>>

\* The steps of the loop, with the time each takes.
PollRun ==
  \/ PollTop(Expired(rl.elapsed)) /\ UNCHANGED rl
  \/ PollTimedOut /\ UNCHANGED rl
  \/ \E connected \in BOOLEAN, took \in {0, 1} :
       /\ PollAvailable(connected)
       /\ rl' = [rl EXCEPT !.checks = @ + 1, !.elapsed = @ + took,
                           !.success_check = IF connected THEN rl.checks + 1 ELSE @]
  \/ PollFadeOut /\ rl' = [rl EXCEPT !.elapsed = @ + 2]
  \/ PollLoadUrl /\ UNCHANGED rl
  \/ PollSetStatus /\ UNCHANGED rl
  \/ PollWindowCheck /\ UNCHANGED rl
  \/ \E waited \in 0..REDIRECT_LOOP_CHECK_INTERVAL :
       /\ redirect_thread_stop_event \/ waited = REDIRECT_LOOP_CHECK_INTERVAL
       /\ PollWait
       /\ rl' = [rl EXCEPT !.elapsed = @ + waited]

NextPoll ==
  \/ PollBegin
  \/ PollShutdownSet
  \/ PollStopSet
  \/ PollWindowDestroyed
  \/ PollRun

SpecPoll == Init /\ [][NextPoll]_vars

\* The loop's thread is scheduled as long as it can take a step.
SpecPollFair == SpecPoll /\ WF_vars(PollRun)

\* ------------------ SpecQuit: APPLICATION_QUIT_REQUESTED from two threads
\* main() with its window and the module-level event_publisher, which any
\* thread may call: the UI's _on_closing, and a second thread (the tray's
\* Quit item as the comments of main() at lines 98-100 and 309-310 expect
\* it).  handle_application_quit_request runs on the publishing thread,
\* statement by statement; pub[t].local is its local window_to_destroy:
\* "none" outside the handler, "read" once line 277 has read a reference,
\* "nulled" once line 281 has cleared the attribute.
MaxQuits == 2

QuitPublishers == {"gui", "tray"}

QuitFrame(t) ==
  /\ Alive
  /\ pub[t].status = "running"
  /\ pub[t].kind = "APPLICATION_QUIT_REQUESTED"
  /\ pub[t].idx <= Len(HandlersToCall(pub[t]))

\* event_publisher.publish(APPLICATION_QUIT_REQUESTED): gui_manager.py 69
\* on the UI thread while the window is open, or another thread's call.
QuitPublish(t) ==
  /\ Alive
  /\ mainpc # "start"
  /\ t = "gui" => (mainpc = "webview" /\ gui.window = "open")
  /\ Len(published["APPLICATION_QUIT_REQUESTED"]) < MaxQuits
  /\ AppPublish(t, "APPLICATION_QUIT_REQUESTED", <<>>)
  /\ UNCHANGED <<smVars, eventVars, mainpc, mon, poller, rl, tray, gui>>

\* _handle_main_thread_quit_request, __main__.py 42-45.
QuitMainHandler(t) ==
  /\ QuitFrame(t)
  /\ LET h == HandlersToCall(pub[t])[pub[t].idx] IN
       /\ h # "handle_application_quit_request"
       /\ pub' = [pub EXCEPT ![t] = AfterCall(pub[t], h, "return", FALSE)]
       /\ app_shutdown_event' = IF h \in SetsShutdown
                                THEN EventSet(app_shutdown_event)
                                ELSE app_shutdown_event
  /\ UNCHANGED <<subscribers, unsub, lock, smVars, app_logic_completed_event,
                 tray_manager_completed_event, gui_content_loaded_event,
                 redirect_thread_stop_event, mainpc, mon, poller, rl, tray,
                 gui, published>>

\* gui_manager.py 277-278: window_to_destroy = self.webview_window; the
\* handler returns when there is none.
QuitRead(t) ==
  /\ QuitFrame(t)
  /\ HandlersToCall(pub[t])[pub[t].idx] = "handle_application_quit_request"
  /\ pub[t].local = "none"
  /\ pub' = [pub EXCEPT ![t] =
               IF gui.webview_window
               THEN [pub[t] EXCEPT !.local = "read"]
               ELSE AfterCall(pub[t], "handle_application_quit_request",
                              "return", FALSE)]
  /\ UNCHANGED <<subscribers, unsub, lock, smVars, appVars>>

\* gui_manager.py 281: self.webview_window = None
QuitNullify(t) ==
  /\ QuitFrame(t)
  /\ pub[t].local = "read"
  /\ pub' = [pub EXCEPT ![t].local = "nulled"]
  /\ gui' = [gui EXCEPT !.webview_window = FALSE]
  /\ UNCHANGED <<subscribers, unsub, lock, smVars, eventVars, mainpc, mon,
                 poller, rl, tray, published>>

\* gui_manager.py 282: window_to_destroy.destroy(), and the handler returns.
QuitDestroy(t) ==
  /\ QuitFrame(t)
  /\ pub[t].local = "nulled"
  /\ pub' = [pub EXCEPT ![t] =
               [AfterCall(pub[t], "handle_application_quit_request",
                          "return", FALSE) EXCEPT !.local = "none"]]
  /\ gui' = Destroyed(gui)
  /\ UNCHANGED <<subscribers, unsub, lock, smVars, eventVars, mainpc, mon,
                 poller, rl, tray, published>>

QuitStep(t) ==
  \/ QuitPublish(t)
  \/ QuitMainHandler(t)
  \/ QuitRead(t)
  \/ QuitNullify(t)
  \/ QuitDestroy(t)
  \/ Alive /\ PublishReturn(t) /\ UNCHANGED <<smVars, appVars>>

NextQuit ==
  \/ MainSetup(TRUE)
  \/ MainWebviewReturns
  \/ MainAwaitShutdown
  \/ MainAwaitLogic
  \/ MainSweepCheck
  \/ MainAwaitTray
  \/ MainDestroy
  \/ MainUnsubscribe
  \/ \E t \in QuitPublishers : QuitStep(t)

SpecQuit == Init /\ [][NextQuit]_vars

\* ------------------------------------------------------------------ claims
\* The handlers a publish has called so far, in call order.
CalledHandlers(f) == [i \in 1..Len(f.called) |-> f.called[i].handler]

\* C1: a publish calls exactly the registrations that were in its kind's list
\* when it took its snapshot, each once and in subscription order, whatever
\* the handlers it calls subscribe or unsubscribe meanwhile: at every moment
\* the handlers called so far are a prefix of that list, and when the publish
\* returns they are the whole list.
C1_PublishCallsSnapshot ==
  LET f == pub["test"] IN
  /\ Len(f.called) <= Len(f.reg0)
  /\ \A i \in 1..Len(f.called) :
       i <= Len(f.reg0) => CalledHandlers(f)[i] = f.reg0[i]
  /\ f.status = "returned" => Len(f.called) = Len(f.reg0)

\* A publish of two registrations has returned after its handlers changed
\* the kind's list, which now differs from what was called.
C1_Witness ==
  LET f == pub["test"] IN
  /\ f.status = "returned"
  /\ f.mutated
  /\ Len(f.reg0) = 2
  /\ subscribers[f.kind] # f.reg0

\* C2: the exception of a handler never leaves publish, and every handler of
\* the snapshot after the one that raised is still called, with the
\* arguments of the publish.
C2_HandlerExceptionIsolated ==
  LET f == pub["test"] IN
  /\ f.status # "escaped"
  /\ f.status = "returned" =>
       /\ Len(f.called) = Len(f.handlers_to_call)
       /\ \A i \in 1..Len(f.called) :
            /\ i <= Len(f.handlers_to_call)
                 => f.called[i].handler = f.handlers_to_call[i]
            /\ f.called[i].args = f.args

\* A publish with arguments has returned although its first handler raised,
\* and a second handler was called after it.
C2_Witness ==
  LET f == pub["test"] IN
  /\ f.status = "returned"
  /\ f.kind = "TEST_EVENT_WITH_ARGS"
  /\ 1 \in f.raised
  /\ Len(f.called) = 2

\* C3: a shutdown_server call on a tracked, running child issues no kill when
\* the child exits within the grace wait, exactly one kill when the grace
\* wait times out, and has cleared the handle when it ends.
C3_GracefulThenForced ==
  LET c == sd["monitor"] IN
  c.pc \in {"done", "raised"} /\ c.entry = "running" =>
    /\ c.grace = "exited" => c.kills = 0
    /\ c.grace = "timeout" => c.kills = 1
    /\ server_process = 0

\* A call has ended after its grace wait timed out and it killed the child.
C3_Witness ==
  LET c == sd["monitor"] IN
  c.pc = "done" /\ c.entry = "running" /\ c.grace = "timeout" /\ c.kills = 1

\* C4: shutdown_server with no tracked process, or with a tracked process
\* that has exited, sends no signal and no kill, does not raise and leaves
\* the handle cleared; a call made directly after another shutdown_server
\* call finds nothing tracked, so it is such a call.
C4_ShutdownIdempotent ==
  LET c == sd["monitor"] IN
  /\ c.entry \in {"untracked", "exited"} =>
       /\ c.sigs = 0 /\ c.kills = 0
       /\ c.pc \in {"clear", "done"}
       /\ c.pc = "done" => server_process = 0
  /\ c.second /\ c.entry # "none" => c.entry = "untracked"

\* A second call, made directly after a call that killed the child, has ended.
C4_Witness ==
  LET c == sd["monitor"] IN
  /\ c.pc = "done" /\ c.second /\ c.entry = "untracked"
  /\ \E p \in Pids : children[p].kills = 1

\* C5: wait_for_server_availability(retries=n) returns True at its first
\* successful connect and attempts nothing after it; when all n connects
\* fail it returns False after exactly n attempts.
C5_AvailabilityAttempts ==
  /\ Len(wa.log) <= wa.retries
  /\ \A i \in 1..Len(wa.log) : wa.log[i] => (i = Len(wa.log) /\ wa.pc = "done")
  /\ wa.pc = "done" =>
       IF wa.result
       THEN Len(wa.log) >= 1 /\ wa.log[Len(wa.log)]
       ELSE Len(wa.log) = wa.retries /\ \A i \in 1..Len(wa.log) : ~wa.log[i]

\* A call with three retries has returned True at its second attempt.
C5_Witness ==
  wa.pc = "done" /\ wa.retries = 3 /\ wa.result /\ Len(wa.log) = 2

\* C6: once the shutdown event is set, by whichever actor, main() eventually
\* completes its teardown and returns.
C6_ShutdownLeadsToReturn == app_shutdown_event ~> MainReturned

\* C7: when main() has finished its teardown no child is running, the
\* monitor and the redirect thread have ended, the tray's icon loop has
\* stopped and the window is destroyed.
C7_AllReleasedAtReturn ==
  mainpc = "done" =>
    /\ \A p \in Pids : ~Running(p)
    /\ MonFinished
    /\ PollFinished
    /\ tray.pc # "running"
    /\ gui.window # "open"

\* C8: after a tray Quit together with a window close the shutdown event is
\* set, no child has been sent the polite signal twice or killed twice, and
\* no kill is made once the handle has been cleared.
C8_TeardownNotRepeated ==
  (tray.icon_stops > 0 /\ published["APPLICATION_QUIT_REQUESTED"] # <<>>
     /\ gui.pc = "idle") =>
    /\ app_shutdown_event
    /\ \A p \in Pids : children[p].terms <= 1 /\ children[p].kills <= 1
    /\ \A t \in SdCallers : sd[t].pc = "kill" => server_process # 0

\* C9: never are the monitor and main() both inside shutdown_server for the
\* same child.
C9_NoConcurrentShutdown ==
  ~(/\ SdActive("monitor") /\ SdActive("main")
    /\ sd["monitor"].proc # 0
    /\ sd["monitor"].proc = sd["main"].proc)

\* C10: SERVER_STOPPED_UNEXPECTEDLY is published at most once, with the pid
\* and the return code of the monitor's exited child; it is published when
\* the monitor finds the child exited and the shutdown event clear; after
\* it the monitor is out of its loop; and the monitor calls shutdown_server
\* at most once.
C10_UnexpectedExitAnnouncedOnce ==
  LET announced == published["SERVER_STOPPED_UNEXPECTEDLY"] IN
  /\ Len(announced) <= 1
  /\ \A i \in 1..Len(announced) :
       /\ mon.server_process # 0
       /\ children[mon.server_process].state = "exited"
       /\ announced[i] = <<mon.server_process,
                           children[mon.server_process].returncode>>
  /\ mon.observed => Len(announced) = 1
  /\ Len(announced) = 1 => mon.pc \notin {"loop", "poll", "loop_wait", "exited"}
  /\ mon.sd_calls <= 1

C10_Witness ==
  /\ published["SERVER_STOPPED_UNEXPECTEDLY"] = <<<<1, 1>>>>
  /\ mon.observed
  /\ mon.pc = "done"
  /\ mon.sd_calls = 0
  /\ app_shutdown_event

\* C11 (as claimed): after start_server failed its path validation the
\* monitor has published APPLICATION_CRITICAL_ERROR with a message that
\* contains the missing path, and no process handle exists.
C11_CriticalErrorNamesPath ==
  mon.launch \in PathFailures =>
    /\ Len(published["APPLICATION_CRITICAL_ERROR"]) = 1
    /\ Contains(published["APPLICATION_CRITICAL_ERROR"][1], MissingPath(mon.launch))
    /\ server_process = 0
    /\ \A p \in Pids : children[p].state = "unborn"

\* C11 (amended): after start_server failed its path validation the monitor
\* has published APPLICATION_CRITICAL_ERROR once, with the fixed message of
\* line 132, which does not contain the missing path; nothing was spawned
\* and server_process is unset.
C11_CriticalErrorFixedMessage ==
  mon.launch \in PathFailures =>
    /\ published["APPLICATION_CRITICAL_ERROR"] =
         <<<<"Could not start the ComfyUI server. Please check the server.log file for details.">>>>
    /\ ~Contains(published["APPLICATION_CRITICAL_ERROR"][1], MissingPath(mon.launch))
    /\ server_process = 0
    /\ \A p \in Pids : children[p].state = "unborn"

C11_Witness ==
  /\ mon.launch = "no_main"
  /\ mon.pc = "done"
  /\ Len(published["APPLICATION_CRITICAL_ERROR"]) = 1
  /\ app_shutdown_event

\* C12: when the availability check fails three times and succeeds on the
\* fourth, with no cancellation, the loop calls load_url once and sets the
\* "Connected" status once, and makes no fifth availability check.
C12_NavigatesOnceOnFourthCheck ==
  (rl.success_check = 4 /\ rl.cancel_pc = "none") =>
    /\ rl.checks = 4
    /\ poller.pc \in {"fade_out", "load_url", "set_status", "done"}
    /\ poller.load_urls <= 1
    /\ poller.statuses <= 1
    /\ poller.pc = "done" =>
         poller.load_urls = 1 /\ poller.statuses = 1 /\ poller.errors = 0

C12_Witness ==
  /\ rl.success_check = 4
  /\ rl.cancel_pc = "none"
  /\ poller.pc = "done"
  /\ poller.load_urls = 1

\* C13: when the shutdown event or the stop event is set while the loop
\* waits between attempts, the loop makes no further availability check and
\* has ended one check interval later at most, without reporting a timeout.
C13_CancelInWaitEndsLoop ==
  rl.cancel_pc = "wait" =>
    /\ rl.checks = rl.cancel_checks
    /\ poller.pc \in {"wait", "top", "done"}
    /\ rl.elapsed - rl.cancel_elapsed <= REDIRECT_LOOP_CHECK_INTERVAL
    /\ poller.errors = 0

C13_Witness ==
  /\ rl.cancel_pc = "wait"
  /\ app_shutdown_event
  /\ ~redirect_thread_stop_event
  /\ poller.pc = "done"
  /\ rl.elapsed = rl.cancel_elapsed + REDIRECT_LOOP_CHECK_INTERVAL

\* C14: the loop makes a bounded number of availability checks; when the
\* server never answers and nothing is cancelled it ends after the budget
\* with the timeout reported once and no load_url; and, once started, it
\* always ends.
C14_LoopTerminates ==
  /\ [](/\ rl.checks <= (REDIRECT_LOOP_MAX_WAIT_TIME \div REDIRECT_LOOP_CHECK_INTERVAL) + 1
        /\ poller.errors <= 1
        /\ (poller.pc = "done" /\ rl.success_check = 0 /\ rl.cancel_pc = "none") =>
             /\ poller.errors = 1
             /\ poller.load_urls = 0
             /\ rl.elapsed > REDIRECT_LOOP_MAX_WAIT_TIME)
  /\ (poller.pc # "not_started") ~> PollFinished

C14_Witness ==
  /\ poller.pc = "done"
  /\ rl.success_check = 0
  /\ rl.cancel_pc = "none"
  /\ poller.errors = 1
  /\ rl.checks = (REDIRECT_LOOP_MAX_WAIT_TIME \div REDIRECT_LOOP_CHECK_INTERVAL) + 1

\* The monitor is in, or past, the cleanup of its finally clause.
MonCleaningUp ==
  \/ mon.pc \in {"cl_stop", "cl_join", "cl_check", "shutdown_server",
                 "cl_unsubscribe", "cl_publish", "done", "crashed"}
  \/ mon.pc = "publishing" /\ mon.after = "done"

\* C15: however app_logic_thread_func ends, its cleanup has set the poller's
\* stop event before the join, has called shutdown_server if its child was
\* still alive, and has then published APP_LOGIC_SHUTDOWN_COMPLETE, once.
C15_CleanupAlwaysCompletes ==
  LET complete == published["APP_LOGIC_SHUTDOWN_COMPLETE"] IN
  /\ Len(complete) <= 1
  /\ (MonCleaningUp /\ mon.pc # "cl_stop") => redirect_thread_stop_event
  /\ complete # <<>> =>
       /\ redirect_thread_stop_event
       /\ ~SdActive("monitor")
       /\ \/ mon.sd_calls = 1
          \/ mon.server_process = 0
          \/ ~Running(mon.server_process)
  /\ mon.pc \in {"done", "crashed"} => Len(complete) = 1

\* C16 (as claimed): _app_logic_completed_event is set by one publish at
\* most, and only when the monitor has left its loop and cleanup behind and
\* its redirect thread has ended.
C16_CompletedAfterThreadsEnded ==
  /\ Len(published["APP_LOGIC_SHUTDOWN_COMPLETE"]) <= 1
  /\ app_logic_completed_event =>
       /\ mon.pc = "done" \/ (mon.pc = "publishing" /\ mon.after = "done")
       /\ PollFinished

\* C16 (amended): _app_logic_completed_event is set by one publish at most,
\* and only when the monitor has left its loop, set the stop event, ended
\* its bounded join and returned from shutdown_server; the redirect thread
\* may still be running.
C16_CompletedAfterCleanup ==
  /\ Len(published["APP_LOGIC_SHUTDOWN_COMPLETE"]) <= 1
  /\ app_logic_completed_event =>
       /\ mon.pc = "done" \/ (mon.pc = "publishing" /\ mon.after = "done")
       /\ redirect_thread_stop_event
       /\ ~SdActive("monitor")

C16_Witness ==
  /\ app_logic_completed_event
  /\ mon.pc = "done"
  /\ mon.redirect_thread
  /\ ~PollFinished

\* C17: once the shutdown event is set and webview.start() has returned,
\* main() gets past its bounded waits on the two completion flags whether or
\* not they are ever set, and goes on through the final sweep to the end of
\* its teardown.
C17_TeardownReachesEnd ==
  (app_shutdown_event /\ mainpc = "wait_logic") ~> (mainpc = "done")

\* C18: whatever start_server and shutdown_server calls are made, no two
\* child processes launched by the ServerManager are alive at the same time.
C18_AtMostOneChildAlive ==
  Cardinality({p \in Pids : Running(p)}) <= 1

\* C19: when the monitor's poll has found the child exited on its own, then
\* once the monitor's cleanup and main()'s teardown are both complete the
\* ServerManager's handle is cleared.
C19_HandleClearedAfterOwnExit ==
  (mon.observed /\ mon.pc = "done" /\ mainpc = "done") => server_process = 0

\* C20: no step of any thread takes app_shutdown_event from set back to
\* unset; a set() on the set event leaves it set.
C20_ShutdownEventStaysSet ==
  [][app_shutdown_event => app_shutdown_event']_vars

\* The tray's Quit, the handler of the child's exit and the monitor itself
\* have each set the event, and main() has returned.
C20_Witness ==
  /\ app_shutdown_event
  /\ tray.icon_stops > 0
  /\ mon.observed
  /\ mon.pc = "done"
  /\ mainpc = "done"

\* The monitor has published the critical error of the GUI timeout.
GuiTimedOut ==
  \E i \in 1..Len(published["APPLICATION_CRITICAL_ERROR"]) :
    published["APPLICATION_CRITICAL_ERROR"][i] = GuiNotLoadedMessage

\* C21: when the wait for the initial content times out, the monitor
\* publishes APPLICATION_CRITICAL_ERROR and goes to its cleanup: it never
\* calls kill_process_on_port or start_server and never starts the redirect
\* thread.
C21_GuiTimeoutStopsMonitor ==
  GuiTimedOut =>
    /\ (mon.pc = "publishing" /\ mon.after = "cl_stop") \/ MonCleaningUp
    /\ mon.port_kills = 0
    /\ mon.launch = "none"
    /\ server_process = 0
    /\ ~mon.redirect_thread
    /\ poller.pc = "not_started"

C21_Witness ==
  /\ GuiTimedOut
  /\ mon.pc = "done"
  /\ mainpc = "done"

\* C22: when start_server returns no process, the monitor publishes
\* APPLICATION_CRITICAL_ERROR once and goes to its cleanup: the redirect
\* thread is never created and the monitoring loop never entered.
C22_LaunchFailureStopsMonitor ==
  mon.launch \in PathFailures \cup {"popen_failed"} =>
    /\ Len(published["APPLICATION_CRITICAL_ERROR"]) = 1
    /\ (mon.pc = "publishing" /\ mon.after = "cl_stop") \/ MonCleaningUp
    /\ ~mon.redirect_thread
    /\ poller.pc = "not_started"
    /\ ~mon.observed
    /\ published["SERVER_STOPPED_UNEXPECTEDLY"] = <<>>

C22_Witness ==
  /\ mon.launch = "popen_failed"
  /\ mon.pc = "done"
  /\ Len(published["APPLICATION_CRITICAL_ERROR"]) = 1
  /\ poller.pc = "not_started"

\* A publish call of kind APPLICATION_CRITICAL_ERROR that found main()'s
\* handler subscribed.
CriticalErrorCall(f) ==
  /\ f.kind = "APPLICATION_CRITICAL_ERROR"
  /\ f.status # "idle"
  /\ \E i \in 1..Len(f.handlers_to_call) :
       f.handlers_to_call[i] = "_handle_critical_error"

\* C23: a publish of APPLICATION_CRITICAL_ERROR that found
\* _handle_critical_error subscribed has set app_shutdown_event once that
\* handler has been called, and so by the time the publish returns.
C23_CriticalErrorSetsShutdown ==
  \A t \in Publishers :
    CriticalErrorCall(pub[t]) =>
      /\ (\E i \in 1..Len(pub[t].called) :
            pub[t].called[i].handler = "_handle_critical_error")
         => app_shutdown_event
      /\ pub[t].status = "returned" => app_shutdown_event

\* The monitor's publish has returned, and nothing else has asked to quit.
C23_Witness ==
  /\ CriticalErrorCall(pub["monitor"])
  /\ pub["monitor"].status = "returned"
  /\ app_shutdown_event
  /\ tray.pc = "running"
  /\ published["APPLICATION_QUIT_REQUESTED"] = <<>>
  /\ published["SERVER_STOPPED_UNEXPECTEDLY"] = <<>>

\* C24: once a publish of APPLICATION_QUIT_REQUESTED has returned the tray's
\* icon loop is no longer running, and once TrayManager.run() has returned
\* TRAY_MANAGER_SHUTDOWN_COMPLETE has been published and main()'s
\* _tray_manager_completed_event is set.
C24_TrayStopsAndReportsCompletion ==
  /\ (\E t \in Publishers :
        /\ pub[t].kind = "APPLICATION_QUIT_REQUESTED"
        /\ pub[t].status = "returned")
     => tray.pc # "running"
  /\ tray.pc = "finished" =>
       /\ published["TRAY_MANAGER_SHUTDOWN_COMPLETE"] # <<>>
       /\ tray_manager_completed_event

\* How often handler h occurs in the list s.
Occurrences(s, h) == Cardinality({i \in 1..Len(s) : s[i] = h})

C26_UnsubscribeAbsentIsNoOp ==
  (unsub.called /\ Occurrences(unsub.before[unsub.kind], unsub.handler) = 0) =>
    /\ ~unsub.raised
    /\ subscribers = unsub.before
    /\ NewFrame(unsub.kind, 0).handlers_to_call = unsub.before[unsub.kind]

\* mock_handler2 was unsubscribed from a list that holds only mock_handler1.
C26_Witness ==
  /\ unsub.called
  /\ unsub.handler = "mock_handler2"
  /\ unsub.before[unsub.kind] = <<"mock_handler1">>
  /\ subscribers[unsub.kind] = <<"mock_handler1">>

\* The list b without its element at index i.
Without(b, i) == [j \in 1..(Len(b) - 1) |-> IF j < i THEN b[j] ELSE b[j + 1]]

\* C27: an unsubscribe of a handler that is in the kind's list removes the
\* earliest registration of that handler and nothing else: the rest of the
\* list keeps its order, and the lists of the other kinds are untouched.
C27_UnsubscribeRemovesEarliest ==
  LET b == unsub.before[unsub.kind]
      h == unsub.handler
  IN  (unsub.called /\ Occurrences(b, h) > 0) =>
        /\ ~unsub.raised
        /\ \E i \in 1..Len(b) :
             /\ b[i] = h
             /\ \A j \in 1..(i - 1) : b[j] # h
             /\ subscribers[unsub.kind] = Without(b, i)
        /\ \A k \in AppEventType \ {unsub.kind} : subscribers[k] = unsub.before[k]

\* mock_handler1 was unsubscribed from a list that held it before and after
\* mock_handler2, while the other kind had a registration of its own.
C27_Witness ==
  /\ unsub.called
  /\ unsub.handler = "mock_handler1"
  /\ unsub.before[unsub.kind] = <<"mock_handler1", "mock_handler2", "mock_handler1">>
  /\ subscribers[unsub.kind] = <<"mock_handler2", "mock_handler1">>
  /\ \E k \in TestKinds \ {unsub.kind} : subscribers[k] # <<>>

\* C28: no step taken while the shutdown event is set calls
\* kill_process_on_port, calls start_server or starts the redirect thread.
C28_NoLaunchAfterShutdown ==
  [][app_shutdown_event =>
       /\ mon'.port_kills = mon.port_kills
       /\ mon'.launch = mon.launch
       /\ mon'.redirect_thread = mon.redirect_thread]_vars

\* C29: no step taken while the redirect thread's stop event or the shutdown
\* event is set calls load_url, set_status or load_error_page from the
\* redirect loop.
C29_PollerSilentAfterSignal ==
  [][(redirect_thread_stop_event \/ app_shutdown_event) =>
       /\ poller'.load_urls = poller.load_urls
       /\ poller'.statuses = poller.statuses
       /\ poller'.errors = poller.errors]_vars

\* C30: whatever error the operating system reports while shutdown_server
\* signals or kills the child, the call does not raise to its caller, and
\* when it has ended the handle is cleared.
C30_SignalErrorsAbsorbed ==
  LET c == sd["monitor"] IN
  /\ c.pc # "raised"
  /\ c.pc = "done" => server_process = 0

\* The shutdown_server call c has ended after its grace wait timed out and
\* the wait after its kill() timed out as well.
StillAliveAfterKill(c) ==
  c.pc \in {"done", "raised"} /\ c.grace = "timeout" /\ c.killwait = "timeout"

\* C31 (as claimed): when the child is still alive after the first kill()
\* and its 5 s wait, shutdown_server has killed it a second time, and no
\* third time, before it clears the handle.
C31_KillRetriedOnce ==
  StillAliveAfterKill(sd["monitor"]) =>
    /\ sd["monitor"].kills = 2
    /\ server_process = 0

\* C31 (amended): when the child is still alive after the kill() and its 5 s
\* wait, shutdown_server does not kill again: the call has issued one kill
\* and has cleared the handle.
C31_KillNotRetried ==
  StillAliveAfterKill(sd["monitor"]) =>
    /\ sd["monitor"].kills = 1
    /\ server_process = 0

\* The call has ended and its child, killed once, is still running.
C31_Witness ==
  /\ StillAliveAfterKill(sd["monitor"])
  /\ sd["monitor"].pc = "done"
  /\ \E p \in Pids : Running(p) /\ children[p].kills = 1

\* C32: the ServerManager only moves Idle -> Running -> GracefulStop ->
\* (ForcedStop ->) Idle: every step stores a handle only when none is held,
\* leaves a call of shutdown_server with a kill only after its polite signal
\* and a grace wait that timed out, and leaves no handle when the call has
\* ended.
C32_LifecycleTransitions ==
  [][/\ (server_process' # server_process /\ server_process' # 0)
          => server_process = 0
     /\ sd'["monitor"].kills > 0 =>
          (sd'["monitor"].sigs > 0 /\ sd'["monitor"].grace = "timeout")
     /\ sd'["monitor"].pc \in {"done", "raised"} => server_process' = 0]_vars

\* C33: while a publish is calling its handlers the registry lock is free,
\* so a handler that subscribes or unsubscribes gets the lock, and so does
\* any other thread.
C33_HandlersRunUnlocked ==
  (\E t \in Publishers : pub[t].status = "running") => lock = "free"

\* A publish is still in its loop after one of its handlers has changed the
\* registry of the kind being published.
C33_Witness ==
  LET f == pub["test"] IN
  /\ f.status = "running"
  /\ f.mutated
  /\ f.idx <= Len(f.handlers_to_call)
  /\ lock = "free"

\* C34: however kill_process_on_port ended, the monitor goes on from it to
\* its next shutdown check and, unless the shutdown event is set, to the
\* call of start_server; no APPLICATION_CRITICAL_ERROR is published for it.
C34_PortFailureNotFatal ==
  mon.port_result # "none" =>
    /\ published["APPLICATION_CRITICAL_ERROR"] = <<>>
    /\ \/ mon.pc \in {"start_check", "start_server"}
       \/ app_shutdown_event /\ MonCleaningUp

\* Access to the process on the port was denied, and the monitor is at its
\* call of start_server.
C34_Witness ==
  /\ mon.port_result = "access_denied"
  /\ mon.pc = "start_server"
  /\ ~app_shutdown_event

\* C35: no step dereferences a handle the other thread has cleared: the
\* sweep's second read of server_process (line 303) never finds None, nor do
\* the second read of shutdown_server's entry check (line 130) and its read
\* of the pid (line 136), so main() is never ended by such an error in its
\* sweep.
C35_SweepNeverDereferencesNone ==
  [][/\ ~(mainpc = "sweep_poll" /\ mainpc' = "crashed")
     /\ \A t \in SdCallers :
          /\ sd'[t].entry # "lost"
          /\ ~(sd[t].pc = "capture" /\ sd'[t].pc = "raised")]_vars

\* C36: once the UI's publish of GUI_WINDOW_CONTENT_LOADED has returned,
\* the monitor's handler has run and its content-loaded event is set: the
\* event is never published before the monitor has subscribed to it.
C36_ContentLoadedNeverLost ==
  gui.initial_load_done => gui_content_loaded_event

\* C37: the shutdown event, once set, stays set, and
\* SERVER_STOPPED_UNEXPECTEDLY is published only by the monitor's step at
\* line 152, taken when the event is not set: an exit the monitor observes
\* with the event already set is never announced.
C37_NoAnnouncementAfterShutdown ==
  [][/\ app_shutdown_event => app_shutdown_event'
     /\ published'["SERVER_STOPPED_UNEXPECTEDLY"]
          # published["SERVER_STOPPED_UNEXPECTEDLY"]
        => (mon.pc = "exited" /\ ~app_shutdown_event)]_vars

C37_Witness ==
  /\ mon.pc = "exited"
  /\ app_shutdown_event
  /\ ~Running(mon.server_process)
  /\ published["SERVER_STOPPED_UNEXPECTEDLY"] = <<>>

\* C38: in every publish of APPLICATION_QUIT_REQUESTED the coordinator's
\* handler has been called before the UI bridge's handler, so once the
\* window has been destroyed by that handler the shutdown event is set: when
\* the UI loop has returned, main's wait for the event returns at once.
C38_CoordinatorHandlerFirst ==
  /\ \A t \in Publishers :
       LET hs == CalledHandlers(pub[t]) IN
       \A i \in 1..Len(hs) :
         hs[i] = "handle_application_quit_request" =>
           \E j \in 1..(i - 1) : hs[j] = "_handle_main_thread_quit_request"
  /\ (gui.window = "destroyed" /\ mainpc \in {"webview", "wait_shutdown"})
       => app_shutdown_event

C38_Witness ==
  /\ mainpc = "wait_shutdown"
  /\ gui.window = "destroyed"
  /\ gui.destroys = 1
  /\ app_shutdown_event

C40_ChildNeverLeaked ==
  LET p == mon.server_process IN
  (published["APP_LOGIC_SHUTDOWN_COMPLETE"] # <<>> /\ p # 0) =>
    \/ ~Running(p)
    \/ /\ server_process = 0
       /\ children[p].terms > 0 \/ children[p].kills > 0

C40_Witness ==
  LET p == mon.server_process IN
  /\ published["APP_LOGIC_SHUTDOWN_COMPLETE"] # <<>>
  /\ p # 0
  /\ ~mon.redirect_thread
  /\ Running(p)
  /\ server_process = 0
  /\ children[p].kills > 0
====
